---- MODULE Spec2Model ----
(***************************************************************************)
(* One LSLIM user-refinement round (lslim_learn_pu_all / lslim_learn_pu)   *)
(* run by num_procs MPI processes.  Every process has its own memory: all  *)
(* per-process objects are functions of the process id (ctrl->id).         *)
(***************************************************************************)
EXTENDS Integers, Sequences, FiniteSets, TLC

\* ------------------------------------------------------------- bounds
MaxUsers == 3        \* train->nrows ranges over 0..MaxUsers in Spec
MaxProcs == 3        \* ctrl->num_procs ranges over 1..MaxProcs
MaxClusters == 2     \* ctrl->num_clusters ranges over 1..MaxClusters in Spec
MaxErr == 2          \* training errors range over 1..MaxErr in Spec
MaxPartUsers == 8    \* train->nrows in SpecPart (the partitioner alone)
MaxPartProcs == 4    \* ctrl->num_procs in SpecPart
MaxOptClusters == 3  \* ctrl->num_clusters in SpecOpt (one user)
MaxOptErr == 3       \* training errors in SpecOpt
MaxRoundUsers == 2   \* train->nrows in SpecRounds (repeated rounds)
MaxRounds == 2       \* rounds the driver runs in SpecRounds
MaxSize == 2         \* ctrl->size ranges over 1..MaxSize in SpecModel
MaxCols == 5         \* model->ncols on entry ranges over 0..MaxCols in SpecModel

\* ------------------------------------------------------------- values
\* Content of memory returned by gk_imalloc and not written yet.
UNINIT == -1
\* A pointer that holds no buffer (NULL, or freed by gk_free).
NULL == <<>>
\* A double that is not a number: every comparison with it is false.
NaN == -2

VARIABLES
  nrows,                  \* train->nrows (datasize)
  num_procs,              \* ctrl->num_procs
  num_clusters,           \* ctrl->num_clusters
  ctrl_size,              \* ctrl->size
  oracle,                 \* oracle[usr][c]: what lslim_training_error returns
  participation,          \* participation[id]: the input vector of process id
  model_ncols,            \* model->ncols of process id
  model_colidx,           \* columns covered by the column index (-1: none)
  pc,                     \* position of process id in lslim_learn_pu_all
  step, startu, endu, u,  \* the locals of process id
  partial_participation, partial_indiff,
  sizes, displays,
  total_participation, total_indiff,
  ret_participation,      \* the returned vector
  ret_indifference,       \* *indifference
  arrived,                \* processes that entered MPI_Barrier, in order
  chan_up,                \* chan_up[id]: messages id -> 0, in order
  chan_down,              \* chan_down[id]: messages 0 -> id, in order
  calls,                  \* calls[<<id, usr, c>>]: oracle calls made
  round,                  \* the round the driver is in
  prev                    \* the driver's record of the previous round

inputs == <<nrows, num_procs, num_clusters, ctrl_size, oracle, participation>>
model == <<model_ncols, model_colidx>>
range == <<step, startu, endu>>
partials == <<partial_participation, partial_indiff>>
coord == <<sizes, displays>>
totals == <<total_participation, total_indiff>>
rets == <<ret_participation, ret_indifference>>
chans == <<chan_up, chan_down>>
driver == <<round, prev>>
vars == <<inputs, model, pc, range, u, partials, coord, totals, rets,
          arrived, chans, calls, driver>>

Procs == 0 .. (num_procs - 1)
Users == 0 .. (nrows - 1)
Clusters == 0 .. (num_clusters - 1)

\* ------------------------------------------------- double comparisons
DblLt(a, b) == a # NaN /\ b # NaN /\ a < b
DblEq(a, b) == a # NaN /\ b # NaN /\ a = b

\* ------------------------------------------------------- partitioning
gk_min(a, b) == IF a < b THEN a ELSE b

\* Line 45-46 (StepOfNoRemainder: the remainder is dropped).
StepOfNoRemainder(id, P, n) == n \div P
StepOf(id, P, n) == (n \div P) + (IF id < (n % P) THEN 1 ELSE 0)

\* StartuOfNoRemainder: the start of equal blocks, the remainder left out.
StartuOfNoRemainder(id, P, n) == (n \div P) * id
\* Lines 47-48 (StartuOfNoMin: the whole remainder is added, not the min).
StartuOfNoMin(id, P, n) == ((n \div P) * id) + (n % P)
StartuOf(id, P, n) == ((n \div P) * id) + gk_min(id, n % P)

\* Lines 45-54: step, startu, endu, and the clamp of the last process
\* (PartitionLastTakesRest: equal blocks, the last process takes the rest).
PartitionLastTakesRest(id, P, n) ==
  LET s0 == (n \div P) * id
      e0 == s0 + (n \div P)
  IN  IF (e0 < n) /\ (id = P - 1)
      THEN [step |-> n - s0, startu |-> s0, endu |-> n]
      ELSE [step |-> n \div P, startu |-> s0, endu |-> e0]
Partition(id, P, n) ==
  LET step0 == StepOf(id, P, n)
      startu0 == StartuOf(id, P, n)
      endu0 == startu0 + step0
  IN  IF (endu0 < n) /\ (id = P - 1)
      THEN [step |-> n - startu0, startu |-> startu0, endu |-> n]
      ELSE [step |-> step0, startu |-> startu0, endu |-> endu0]

\* WidenColsAlways: the column count set without the comparison of line 56.
WidenColsAlways(ncols) == ctrl_size * num_clusters
\* Line 51: the condition under which the range of a process is clamped.
ClampCondition(id, P, n) ==
  (StartuOf(id, P, n) + StepOf(id, P, n) < n) /\ (id = P - 1)

\* Lines 56-57: the declared column count after the widening.
WidenCols(ncols) ==
  IF ctrl_size * num_clusters > ncols THEN ctrl_size * num_clusters ELSE ncols

\* ------------------------------------------------- per-user optimizer
lslim_training_error(usr, cluster_id) == oracle[usr][cluster_id]

\* Lines 158-163: the scan for a strictly smaller error
\* (ScanMinLe: <= for <).
RECURSIVE ScanMinLe(_, _, _, _)
ScanMinLe(error, cluster_id, new_assignment, min_error) ==
  IF cluster_id >= num_clusters
  THEN [new_assignment |-> new_assignment, min_error |-> min_error]
  ELSE IF DblLt(error[cluster_id], min_error) \/ DblEq(error[cluster_id], min_error)
       THEN ScanMinLe(error, cluster_id + 1, cluster_id, error[cluster_id])
       ELSE ScanMinLe(error, cluster_id + 1, new_assignment, min_error)
RECURSIVE ScanMin(_, _, _, _)
ScanMin(error, cluster_id, new_assignment, min_error) ==
  IF cluster_id >= num_clusters
  THEN [new_assignment |-> new_assignment, min_error |-> min_error]
  ELSE IF DblLt(error[cluster_id], min_error)
       THEN ScanMin(error, cluster_id + 1, cluster_id, error[cluster_id])
       ELSE ScanMin(error, cluster_id + 1, new_assignment, min_error)

\* Lines 168-174: the scan for another cluster with the incumbent's error
\* (ScanTieAny: the incumbent itself is not skipped).
RECURSIVE ScanTieAny(_, _, _, _, _)
ScanTieAny(error, cluster_id, part, min_error, indiff) ==
  IF cluster_id >= num_clusters
  THEN indiff
  ELSE IF DblEq(error[cluster_id], min_error)
       THEN ScanTieAny(error, cluster_id + 1, part, min_error, 1)
       ELSE ScanTieAny(error, cluster_id + 1, part, min_error, indiff)
RECURSIVE ScanTie(_, _, _, _, _)
ScanTie(error, cluster_id, part, min_error, indiff) ==
  IF cluster_id >= num_clusters
  THEN indiff
  ELSE IF (cluster_id # part) /\ DblEq(error[cluster_id], min_error)
       THEN ScanTie(error, cluster_id + 1, part, min_error, 1)
       ELSE ScanTie(error, cluster_id + 1, part, min_error, indiff)

\* Lines 136-181: the new assignment of user usr and *indiff.
lslim_learn_pu(usr, part) ==
  LET error == [c \in Clusters |-> lslim_training_error(usr, c)]
      best == ScanMin(error, 0, part, error[part])
      indiff == IF best.new_assignment = part
                THEN ScanTie(error, 0, part, best.min_error, 0)
                ELSE 0
  IN  [assignment |-> best.new_assignment, indiff |-> indiff]

\* ------------------------------------------------------- coordinator
\* Lines 83-87: displays[0] = 0, displays[i+1] = displays[i] + sizes[i].
RECURSIVE DisplayAt(_, _)
DisplayAt(sz, i) == IF i = 0 THEN 0 ELSE DisplayAt(sz, i - 1) + sz[i - 1]

\* DisplaysOfSizes: the sizes themselves, no running sum.
DisplaysOfSizes(sz) == [i \in Procs |-> sz[i]]
DisplaysOf(sz) == [i \in Procs |-> DisplayAt(sz, i)]

\* GathervNoDispl: every block lands at the start of recvbuf.
GathervNoDispl(recvbuf, sz, dsp, sent) ==
  [j \in DOMAIN recvbuf |->
     LET from == {i \in Procs : 0 <= j /\ j < sz[i]}
     IN  IF from = {}
         THEN recvbuf[j]
         ELSE LET i == CHOOSE x \in from : \A y \in from : y <= x
              IN  IF j \in DOMAIN sent[i] THEN sent[i][j] ELSE UNINIT]
\* MPI_Gatherv at the root: sizes[i] elements of process i's send buffer
\* land at recvbuf + displays[i].  Where blocks overlap (which MPI leaves
\* undefined) the block of the highest rank is kept.
Gatherv(recvbuf, sz, dsp, sent) ==
  [j \in DOMAIN recvbuf |->
     LET from == {i \in Procs : dsp[i] <= j /\ j < dsp[i] + sz[i]}
     IN  IF from = {}
         THEN recvbuf[j]
         ELSE LET i == CHOOSE x \in from : \A y \in from : y <= x
              IN  IF (j - dsp[i]) \in DOMAIN sent[i]
                  THEN sent[i][j - dsp[i]]
                  ELSE UNINIT]

\* gk_imalloc(n): n ints, not initialised.
gk_imalloc(n) == [i \in 0 .. (n - 1) |-> UNINIT]

\* ------------------------------------------------------ initial state
\* One value per process id.
All(P, x) == [id \in 0 .. (P - 1) |-> x]

\* The state of every process on entry to lslim_learn_pu_all.
Entry(n, P, C, sz, nc0, orc, part) ==
  /\ nrows = n
  /\ num_procs = P
  /\ num_clusters = C
  /\ ctrl_size = sz
  /\ oracle = orc
  /\ participation = All(P, part)
  /\ model_ncols = All(P, nc0)
  /\ model_colidx = All(P, -1)
  /\ pc = All(P, "start")
  /\ step = All(P, 0)
  /\ startu = All(P, 0)
  /\ endu = All(P, 0)
  /\ u = All(P, 0)
  /\ partial_participation = All(P, NULL)
  /\ partial_indiff = All(P, NULL)
  /\ sizes = All(P, NULL)
  /\ displays = All(P, NULL)
  /\ total_participation = All(P, NULL)
  /\ total_indiff = All(P, NULL)
  /\ ret_participation = All(P, NULL)
  /\ ret_indifference = All(P, NULL)
  /\ arrived = <<>>
  /\ chan_up = All(P, <<>>)
  /\ chan_down = All(P, <<>>)
  /\ calls = [x \in (0 .. (P - 1)) \X (0 .. (n - 1)) \X (0 .. (C - 1)) |-> 0]

NoPrev == [procs |-> 0, kind |-> "none", input |-> NULL,
           participation |-> NULL, indifference |-> NULL]

\* The error tables and participation vectors of n users and C clusters
\* with errors in 1..E.
Tables(n, C, E) == [0 .. (n - 1) -> [0 .. (C - 1) -> 1 .. E]]
Vectors(n, C) == [0 .. (n - 1) -> 0 .. (C - 1)]

\* The scenario of 4 users, 2 clusters and 2 processes.
ScenarioOracle ==
  [usr \in 0 .. 3 |->
     [c \in 0 .. 1 |->
        CASE usr = 0 -> (IF c = 0 THEN 1 ELSE 2)
          [] usr = 1 -> (IF c = 0 THEN 2 ELSE 1)
          [] usr = 2 -> 1
          [] OTHER -> 3]]
ScenarioParticipation == [usr \in 0 .. 3 |-> IF usr = 2 THEN 1 ELSE 0]

Init ==
  /\ round = 1
  /\ prev = NoPrev
  /\ \/ \E n \in 0 .. MaxUsers, P \in 1 .. MaxProcs, C \in 1 .. MaxClusters :
          \E orc \in Tables(n, C, MaxErr), part \in Vectors(n, C) :
             Entry(n, P, C, 1, 0, orc, part)
     \/ Entry(4, 2, 2, 1, 0, ScenarioOracle, ScenarioParticipation)

\* ------------------------------------------------------------ actions
\* Lines 44-63: the range of this process, the widening of the model and
\* its column index, and the two partial buffers.
Setup(id) ==
  /\ pc[id] = "start"
  /\ LET p == Partition(id, num_procs, nrows)
     IN  /\ step' = [step EXCEPT ![id] = p.step]
         /\ startu' = [startu EXCEPT ![id] = p.startu]
         /\ endu' = [endu EXCEPT ![id] = p.endu]
         /\ u' = [u EXCEPT ![id] = p.startu]
         /\ partial_participation' =
              [partial_participation EXCEPT ![id] = gk_imalloc(p.step)]
         /\ partial_indiff' = [partial_indiff EXCEPT ![id] = gk_imalloc(p.step)]
  /\ model_ncols' = [model_ncols EXCEPT ![id] = WidenCols(model_ncols[id])]
  /\ model_colidx' = [model_colidx EXCEPT ![id] = WidenCols(model_ncols[id])]
  /\ pc' = [pc EXCEPT ![id] = "loop"]
  /\ UNCHANGED <<inputs, coord, totals, rets, arrived, chans, calls, driver>>

\* LearnUserInPlace: the loop body of lines 65-69 storing the new assignment
\* into the input vector as well.
LearnUserInPlace(id) ==
  /\ pc[id] = "loop"
  /\ u[id] < endu[id]
  /\ LET r == lslim_learn_pu(u[id], participation[id][u[id]])
     IN  /\ partial_participation' =
              [partial_participation EXCEPT ![id][u[id] - startu[id]] = r.assignment]
         /\ partial_indiff' =
              [partial_indiff EXCEPT ![id][u[id] - startu[id]] = r.indiff]
         /\ participation' = [participation EXCEPT ![id][u[id]] = r.assignment]
  /\ calls' = [x \in DOMAIN calls |->
                 IF x[1] = id /\ x[2] = u[id] THEN calls[x] + 1 ELSE calls[x]]
  /\ u' = [u EXCEPT ![id] = u[id] + 1]
  /\ UNCHANGED <<nrows, num_procs, num_clusters, ctrl_size, oracle, model, pc,
                 range, coord, totals, rets, arrived, chans, driver>>

\* Lines 65-69: one iteration of the loop over the users of this process.
LearnUser(id) ==
  /\ pc[id] = "loop"
  /\ u[id] < endu[id]
  /\ LET r == lslim_learn_pu(u[id], participation[id][u[id]])
     IN  /\ partial_participation' =
              [partial_participation EXCEPT ![id][u[id] - startu[id]] = r.assignment]
         /\ partial_indiff' =
              [partial_indiff EXCEPT ![id][u[id] - startu[id]] = r.indiff]
  /\ calls' = [x \in DOMAIN calls |->
                 IF x[1] = id /\ x[2] = u[id] THEN calls[x] + 1 ELSE calls[x]]
  /\ u' = [u EXCEPT ![id] = u[id] + 1]
  /\ UNCHANGED <<inputs, model, pc, range, coord, totals, rets, arrived,
                 chans, driver>>

\* BarrierEnterSkipEmpty: a process with an empty range goes past the
\* barrier without entering it.
BarrierEnterSkipEmpty(id) ==
  /\ pc[id] = "loop"
  /\ ~(u[id] < endu[id])
  /\ IF step[id] = 0
       THEN /\ pc' = [pc EXCEPT ![id] = "gather"]
            /\ UNCHANGED arrived
       ELSE /\ arrived' = Append(arrived, id)
            /\ pc' = [pc EXCEPT ![id] = "barrier"]
  /\ UNCHANGED <<inputs, model, range, u, partials, coord, totals, rets,
                 chans, calls, driver>>

\* Lines 65, 71: the loop ends and the process enters MPI_Barrier.
BarrierEnter(id) ==
  /\ pc[id] = "loop"
  /\ ~(u[id] < endu[id])
  /\ arrived' = Append(arrived, id)
  /\ pc' = [pc EXCEPT ![id] = "barrier"]
  /\ UNCHANGED <<inputs, model, range, u, partials, coord, totals, rets,
                 chans, calls, driver>>

\* BarrierExitEarly: a barrier that lets a process through at once.
BarrierExitEarly(id) ==
  /\ pc[id] = "barrier"
  /\ pc' = [pc EXCEPT ![id] = "gather"]
  /\ UNCHANGED <<inputs, model, range, u, partials, coord, totals, rets,
                 arrived, chans, calls, driver>>

\* Line 71: MPI_Barrier returns once every process has entered it.
BarrierExit(id) ==
  /\ pc[id] = "barrier"
  /\ Len(arrived) = num_procs
  /\ pc' = [pc EXCEPT ![id] = "gather"]
  /\ UNCHANGED <<inputs, model, range, u, partials, coord, totals, rets,
                 arrived, chans, calls, driver>>

\* What the root holds of every process's send buffer once all have sent
\* (HeadsOwn: the root's own buffer taken for every process).
HeadsOwn(own) == [i \in Procs |-> own]
Heads(own) == [i \in Procs |-> IF i = 0 THEN own ELSE Head(chan_up[i])]
AllSent == \A i \in Procs \ {0} : Len(chan_up[i]) > 0
Received == [i \in Procs |-> IF i = 0 THEN chan_up[i] ELSE Tail(chan_up[i])]

\* Lines 75-91: MPI_Gather of step, the displacements, the two total buffers.
GatherSize(id) ==
  /\ pc[id] = "gather"
  /\ IF id = 0
     THEN /\ AllSent
          /\ LET sz == Heads(step[0])
             IN  /\ sizes' = [sizes EXCEPT ![id] = sz]
                 /\ displays' = [displays EXCEPT ![id] = DisplaysOf(sz)]
          /\ chan_up' = Received
     ELSE /\ chan_up' = [chan_up EXCEPT ![id] = Append(chan_up[id], step[id])]
          /\ UNCHANGED coord
  /\ total_participation' = [total_participation EXCEPT ![id] = gk_imalloc(nrows)]
  /\ total_indiff' = [total_indiff EXCEPT ![id] = gk_imalloc(nrows)]
  /\ pc' = [pc EXCEPT ![id] = "gatherv_participation"]
  /\ UNCHANGED <<inputs, model, range, u, partials, rets, arrived, chan_down,
                 calls, driver>>

\* Lines 93-94: MPI_Gatherv of the partial assignments.
GathervParticipation(id) ==
  /\ pc[id] = "gatherv_participation"
  /\ IF id = 0
     THEN /\ AllSent
          /\ total_participation' =
               [total_participation EXCEPT ![id] =
                  Gatherv(total_participation[id], sizes[id], displays[id],
                          Heads(partial_participation[0]))]
          /\ chan_up' = Received
     ELSE /\ chan_up' = [chan_up EXCEPT
                           ![id] = Append(chan_up[id], partial_participation[id])]
          /\ UNCHANGED total_participation
  /\ pc' = [pc EXCEPT ![id] = "gatherv_indiff"]
  /\ UNCHANGED <<inputs, model, range, u, partials, coord, total_indiff, rets,
                 arrived, chan_down, calls, driver>>

\* Lines 96-97: MPI_Gatherv of the partial indifference flags.
GathervIndiff(id) ==
  /\ pc[id] = "gatherv_indiff"
  /\ IF id = 0
     THEN /\ AllSent
          /\ total_indiff' =
               [total_indiff EXCEPT ![id] =
                  Gatherv(total_indiff[id], sizes[id], displays[id],
                          Heads(partial_indiff[0]))]
          /\ chan_up' = Received
     ELSE /\ chan_up' = [chan_up EXCEPT
                           ![id] = Append(chan_up[id], partial_indiff[id])]
          /\ UNCHANGED total_indiff
  /\ pc' = [pc EXCEPT ![id] = "bcast_participation"]
  /\ UNCHANGED <<inputs, model, range, u, partials, coord, total_participation,
                 rets, arrived, chan_down, calls, driver>>

\* Line 101: MPI_Bcast of the total assignments from process 0.
BcastParticipation(id) ==
  /\ pc[id] = "bcast_participation"
  /\ IF id = 0
     THEN /\ chan_down' = [i \in Procs |->
                             IF i = 0 THEN chan_down[i]
                             ELSE Append(chan_down[i], total_participation[0])]
          /\ UNCHANGED total_participation
     ELSE /\ Len(chan_down[id]) > 0
          /\ total_participation' =
               [total_participation EXCEPT ![id] = Head(chan_down[id])]
          /\ chan_down' = [chan_down EXCEPT ![id] = Tail(chan_down[id])]
  /\ pc' = [pc EXCEPT ![id] = "bcast_indiff"]
  /\ UNCHANGED <<inputs, model, range, u, partials, coord, total_indiff, rets,
                 arrived, chan_up, calls, driver>>

\* Line 102: MPI_Bcast of the total indifference flags from process 0.
BcastIndiff(id) ==
  /\ pc[id] = "bcast_indiff"
  /\ IF id = 0
     THEN /\ chan_down' = [i \in Procs |->
                             IF i = 0 THEN chan_down[i]
                             ELSE Append(chan_down[i], total_indiff[0])]
          /\ UNCHANGED total_indiff
     ELSE /\ Len(chan_down[id]) > 0
          /\ total_indiff' = [total_indiff EXCEPT ![id] = Head(chan_down[id])]
          /\ chan_down' = [chan_down EXCEPT ![id] = Tail(chan_down[id])]
  /\ pc' = [pc EXCEPT ![id] = "free"]
  /\ UNCHANGED <<inputs, model, range, u, partials, coord, total_participation,
                 rets, arrived, chan_up, calls, driver>>

\* Lines 106-113: the buffers are freed and the two vectors returned.
Return(id) ==
  /\ pc[id] = "free"
  /\ partial_participation' = [partial_participation EXCEPT ![id] = NULL]
  /\ partial_indiff' = [partial_indiff EXCEPT ![id] = NULL]
  /\ IF id = 0
     THEN /\ sizes' = [sizes EXCEPT ![id] = NULL]
          /\ displays' = [displays EXCEPT ![id] = NULL]
     ELSE UNCHANGED coord
  /\ ret_indifference' = [ret_indifference EXCEPT ![id] = total_indiff[id]]
  /\ ret_participation' = [ret_participation EXCEPT ![id] = total_participation[id]]
  /\ pc' = [pc EXCEPT ![id] = "done"]
  /\ UNCHANGED <<inputs, model, range, u, totals, arrived, chans, calls, driver>>

Next ==
  \/ \E id \in Procs : Setup(id)
  \/ \E id \in Procs : LearnUser(id)
  \/ \E id \in Procs : BarrierEnter(id)
  \/ \E id \in Procs : BarrierExit(id)
  \/ \E id \in Procs : GatherSize(id)
  \/ \E id \in Procs : GathervParticipation(id)
  \/ \E id \in Procs : GathervIndiff(id)
  \/ \E id \in Procs : BcastParticipation(id)
  \/ \E id \in Procs : BcastIndiff(id)
  \/ \E id \in Procs : Return(id)

Spec == Init /\ [][Next]_vars

AllDone == \A id \in Procs : pc[id] = "done"

\* ------------------------------------------- the partitioner alone
\* Every process computes its range; nothing else runs.
InitPart ==
  /\ round = 1
  /\ prev = NoPrev
  /\ \E n \in 0 .. MaxPartUsers, P \in 1 .. MaxPartProcs :
        Entry(n, P, 1, 1, 0, [usr \in 0 .. (n - 1) |-> [c \in 0 .. 0 |-> 1]],
              [usr \in 0 .. (n - 1) |-> 0])

NextPart == \E id \in Procs : Setup(id)

SpecPart == InitPart /\ [][NextPart]_vars

\* ------------------------------------------- the optimizer on one user
\* A round of one user on one process, over every error vector.
InitOpt ==
  /\ round = 1
  /\ prev = NoPrev
  /\ \E C \in 1 .. MaxOptClusters :
        \E orc \in Tables(1, C, MaxOptErr), part \in Vectors(1, C) :
           Entry(1, 1, C, 1, 0, orc, part)

SpecOpt == InitOpt /\ [][Next]_vars

\* ------------------------------------------- the driver of the rounds
\* The caller of lslim_learn_pu_all: once every process has returned it
\* starts the next round on the vector the round returned.
NextRound ==
  /\ AllDone
  /\ round < MaxRounds
  /\ round' = round + 1
  /\ prev' = [procs |-> num_procs, kind |-> "next", input |-> participation[0],
              participation |-> ret_participation[0],
              indifference |-> ret_indifference[0]]
  /\ participation' = ret_participation
  /\ pc' = [id \in Procs |-> "start"]
  /\ step' = [id \in Procs |-> 0]
  /\ startu' = [id \in Procs |-> 0]
  /\ endu' = [id \in Procs |-> 0]
  /\ u' = [id \in Procs |-> 0]
  /\ total_participation' = [id \in Procs |-> NULL]
  /\ total_indiff' = [id \in Procs |-> NULL]
  /\ ret_participation' = [id \in Procs |-> NULL]
  /\ ret_indifference' = [id \in Procs |-> NULL]
  /\ arrived' = <<>>
  /\ calls' = [x \in DOMAIN calls |-> 0]
  /\ UNCHANGED <<nrows, num_procs, num_clusters, ctrl_size, oracle, model,
                 partials, coord, chans>>

\* The same round started again on the same input with P processes.
Rerun(P) ==
  /\ AllDone
  /\ round < MaxRounds
  /\ P # num_procs
  /\ round' = round + 1
  /\ prev' = [procs |-> num_procs, kind |-> "rerun", input |-> participation[0],
              participation |-> ret_participation[0],
              indifference |-> ret_indifference[0]]
  /\ num_procs' = P
  /\ participation' = All(P, participation[0])
  /\ model_ncols' = All(P, model_ncols[0])
  /\ model_colidx' = All(P, model_colidx[0])
  /\ pc' = All(P, "start")
  /\ step' = All(P, 0)
  /\ startu' = All(P, 0)
  /\ endu' = All(P, 0)
  /\ u' = All(P, 0)
  /\ partial_participation' = All(P, NULL)
  /\ partial_indiff' = All(P, NULL)
  /\ sizes' = All(P, NULL)
  /\ displays' = All(P, NULL)
  /\ total_participation' = All(P, NULL)
  /\ total_indiff' = All(P, NULL)
  /\ ret_participation' = All(P, NULL)
  /\ ret_indifference' = All(P, NULL)
  /\ arrived' = <<>>
  /\ chan_up' = All(P, <<>>)
  /\ chan_down' = All(P, <<>>)
  /\ calls' = [x \in (0 .. (P - 1)) \X Users \X Clusters |-> 0]
  /\ UNCHANGED <<nrows, num_clusters, ctrl_size, oracle>>

NextRounds ==
  \/ Next
  \/ NextRound
  \/ \E P \in 1 .. MaxProcs : Rerun(P)

InitRounds ==
  /\ round = 1
  /\ prev = NoPrev
  /\ \E n \in 0 .. MaxRoundUsers, P \in 1 .. MaxProcs, C \in 1 .. MaxClusters :
        \E orc \in Tables(n, C, MaxErr), part \in Vectors(n, C) :
           Entry(n, P, C, 1, 0, orc, part)

SpecRounds == InitRounds /\ [][NextRounds]_vars

\* ------------------------------------------- an oracle that yields NaN
\* Rounds whose error table may hold values that are not numbers.
TablesNaN(n, C, E) == [0 .. (n - 1) -> [0 .. (C - 1) -> {NaN} \cup (1 .. E)]]

InitNaN ==
  /\ round = 1
  /\ prev = NoPrev
  /\ \E n \in 0 .. MaxRoundUsers, P \in 1 .. MaxProcs, C \in 1 .. MaxClusters :
        \E orc \in TablesNaN(n, C, MaxErr), part \in Vectors(n, C) :
           Entry(n, P, C, 1, 0, orc, part)

SpecNaN == InitNaN /\ [][Next]_vars

\* ------------------------------------------- a peer that stalls
\* A process stalls or crashes during its local pass: it takes no further
\* step and never enters the barrier.
Stall(id) ==
  /\ pc[id] \in {"start", "loop"}
  /\ pc' = [pc EXCEPT ![id] = "stalled"]
  /\ UNCHANGED <<inputs, model, range, u, partials, coord, totals, rets,
                 arrived, chans, calls, driver>>

NextStall ==
  \/ Next
  \/ \E id \in Procs : Stall(id)

SpecStall == InitRounds /\ [][NextStall]_vars

\* ------------------------------------------- fair scheduling
\* No process stalls and the oracle always returns: a step that stays
\* possible is eventually taken.
SpecFair == InitRounds /\ [][Next]_vars /\ WF_vars(Next)

\* ------------------------------------------- the model's column count
\* Rounds over every block width and every column count the model may
\* declare on entry; the driver runs the next round on the same model.
InitModel ==
  /\ round = 1
  /\ prev = NoPrev
  /\ \E n \in 0 .. MaxRoundUsers, P \in 1 .. MaxProcs, C \in 1 .. MaxClusters :
        \E sz \in 1 .. MaxSize, nc0 \in 0 .. MaxCols :
           Entry(n, P, C, sz, nc0, [usr \in 0 .. (n - 1) |-> [c \in 0 .. (C - 1) |-> 1]],
                 [usr \in 0 .. (n - 1) |-> 0])

NextModel ==
  \/ Next
  \/ NextRound

SpecModel == InitModel /\ [][NextModel]_vars

\* ===================================================== the claims
\* Process id holds a computed pair for user usr in its partial buffers.
Processed(id, usr) ==
  /\ pc[id] \notin {"start", "done"}
  /\ startu[id] <= usr
  /\ usr < u[id]

\* Process id has computed its range.
Ranged(id) == pc[id] # "start"
AllRanged == \A id \in Procs : Ranged(id)

\* The smallest error of user usr and the clusters that attain it.
MinError(usr) ==
  CHOOSE m \in {oracle[usr][c] : c \in Clusters} :
    \A c \in Clusters : m <= oracle[usr][c]
ArgMin(usr) == {c \in Clusters : oracle[usr][c] = MinError(usr)}
Lowest(S) == CHOOSE c \in S : \A d \in S : c <= d
Improvable(usr, cur) == \E c \in Clusters : oracle[usr][c] < oracle[usr][cur]
Tied(usr, cur) ==
  \E c \in Clusters : c # cur /\ oracle[usr][c] = oracle[usr][cur]

IsScenario ==
  /\ nrows = 4
  /\ num_procs = 2
  /\ num_clusters = 2
  /\ oracle = ScenarioOracle
  /\ \A id \in Procs : participation[id] = ScenarioParticipation

\* A process that has returned holds vectors of exactly nrows entries, and
\* for every user the pair that lslim_learn_pu yields for that user and its
\* input assignment.
ReturnsOptimizerPairs(id) ==
  /\ DOMAIN ret_participation[id] = Users
  /\ DOMAIN ret_indifference[id] = Users
  /\ \A usr \in Users :
       LET r == lslim_learn_pu(usr, participation[id][usr])
       IN  /\ ret_participation[id][usr] = r.assignment
           /\ ret_indifference[id][usr] = r.indiff

\* C1 as stated: every returned entry is lslim_learn_pu's pair for its user,
\* and on the 4-user scenario with 2 processes the returned vectors are
\* [0,1,1,0] and [0,0,1,0].
C1_AsStated ==
  \A id \in Procs :
    pc[id] = "done" =>
      /\ ReturnsOptimizerPairs(id)
      /\ IsScenario =>
           /\ ret_participation[id] = [usr \in 0 .. 3 |-> IF usr \in {1, 2} THEN 1 ELSE 0]
           /\ ret_indifference[id] = [usr \in 0 .. 3 |-> IF usr = 2 THEN 1 ELSE 0]

\* C1, amended: every returned entry is lslim_learn_pu's pair for its user,
\* and on the 4-user scenario with 2 processes the returned vectors are
\* [0,1,1,0] and [0,0,1,1]: user 3, whose two errors are both 3, is tied too.
C1_RoundResult ==
  \A id \in Procs :
    pc[id] = "done" =>
      /\ ReturnsOptimizerPairs(id)
      /\ IsScenario =>
           /\ ret_participation[id] = [usr \in 0 .. 3 |-> IF usr \in {1, 2} THEN 1 ELSE 0]
           /\ ret_indifference[id] = [usr \in 0 .. 3 |-> IF usr \in {2, 3} THEN 1 ELSE 0]

C1_Witness == IsScenario /\ AllDone

\* C2: the ranges the processes compute start at 0, end at nrows, each ends
\* where the next begins, and every user lies in exactly one of them.
C2_PartitionCoverage ==
  /\ \A id \in Procs : Ranged(id) => startu[id] <= endu[id]
  /\ Ranged(0) => startu[0] = 0
  /\ Ranged(num_procs - 1) => endu[num_procs - 1] = nrows
  /\ \A id \in Procs :
       (id + 1 \in Procs /\ Ranged(id) /\ Ranged(id + 1)) => endu[id] = startu[id + 1]
  /\ AllRanged =>
       \A usr \in Users :
         Cardinality({id \in Procs : startu[id] <= usr /\ usr < endu[id]}) = 1

C2_Witness ==
  /\ AllRanged
  /\ nrows >= 2
  /\ num_procs > nrows
  /\ \E id \in Procs : startu[id] = endu[id]
  /\ \E id \in Procs : startu[id] < endu[id]

\* Process id holds an assembled vector; the users process o owns.
HoldsParticipation(id) ==
  IF id = 0
  THEN pc[id] \in {"gatherv_indiff", "bcast_participation", "bcast_indiff", "free"}
  ELSE pc[id] \in {"bcast_indiff", "free"}
HoldsIndiff(id) ==
  IF id = 0
  THEN pc[id] \in {"bcast_participation", "bcast_indiff", "free"}
  ELSE pc[id] = "free"
Owned(o) == {usr \in Users : startu[o] <= usr /\ usr < endu[o]}

\* C3: whatever the order in which the processes reach the collectives, a
\* process that holds an assembled vector holds, at every index a process
\* owns, the entry that process computed for it, and the processes that
\* have returned hold identical vectors.
C3_GatherBroadcast ==
  /\ \A id \in Procs, o \in Procs :
       (HoldsParticipation(id) /\ pc[o] # "done") =>
          \A usr \in Owned(o) :
            total_participation[id][usr] = partial_participation[o][usr - startu[o]]
  /\ \A id \in Procs, o \in Procs :
       (HoldsIndiff(id) /\ pc[o] # "done") =>
          \A usr \in Owned(o) :
            total_indiff[id][usr] = partial_indiff[o][usr - startu[o]]
  /\ \A id \in Procs :
       pc[id] = "done" =>
          /\ ret_participation[id] = total_participation[id]
          /\ ret_indifference[id] = total_indiff[id]
  /\ \A a \in Procs, b \in Procs :
       (pc[a] \in {"free", "done"} /\ pc[b] \in {"free", "done"}) =>
          /\ total_participation[a] = total_participation[b]
          /\ total_indiff[a] = total_indiff[b]

\* The root entered the barrier last, after a process of higher rank had
\* entered before one of lower rank, and the vectors are not constant.
C3_Witness ==
  /\ AllDone
  /\ num_procs = 3
  /\ nrows = 3
  /\ arrived = <<2, 1, 0>>
  /\ ret_participation[1][0] # ret_participation[1][1]
  /\ ret_indifference[2][1] # ret_indifference[2][2]

\* C4: where some cluster has a strictly lower error than the current one,
\* the computed assignment is the lowest cluster id among those of minimum
\* error, and the flag is 0.
C4_OptimizerImprovement ==
  \A id \in Procs, usr \in Users :
    (Processed(id, usr) /\ Improvable(usr, participation[id][usr])) =>
       /\ partial_participation[id][usr - startu[id]] = Lowest(ArgMin(usr))
       /\ partial_indiff[id][usr - startu[id]] = 0

\* An improvement for which several clusters tie, the current one in between.
C4_Witness ==
  \E id \in Procs, usr \in Users :
    /\ Processed(id, usr)
    /\ Improvable(usr, participation[id][usr])
    /\ Cardinality(ArgMin(usr)) >= 2
    /\ partial_participation[id][usr - startu[id]] < participation[id][usr]
    /\ \E c \in ArgMin(usr) : c > participation[id][usr]

\* C5: where another cluster has the error of the current one and none has
\* a strictly lower error, the assignment stays and the flag is 1.
C5_OptimizerTie ==
  \A id \in Procs, usr \in Users :
    (/\ Processed(id, usr)
     /\ Tied(usr, participation[id][usr])
     /\ ~Improvable(usr, participation[id][usr])) =>
       /\ partial_participation[id][usr - startu[id]] = participation[id][usr]
       /\ partial_indiff[id][usr - startu[id]] = 1

\* A tie with a cluster of lower id and with a cluster of higher id.
C5_Witness ==
  \E id \in Procs, usr \in Users :
    /\ Processed(id, usr)
    /\ ~Improvable(usr, participation[id][usr])
    /\ \E c \in Clusters :
         c < participation[id][usr] /\ oracle[usr][c] = oracle[usr][participation[id][usr]]
    /\ \E c \in Clusters :
         c > participation[id][usr] /\ oracle[usr][c] = oracle[usr][participation[id][usr]]

\* C6: where the current cluster's error is strictly smaller than every
\* other cluster's, the assignment stays and the flag is 0.
C6_OptimizerIncumbency ==
  \A id \in Procs, usr \in Users :
    (/\ Processed(id, usr)
     /\ \A c \in Clusters \ {participation[id][usr]} :
          oracle[usr][participation[id][usr]] < oracle[usr][c]) =>
       /\ partial_participation[id][usr - startu[id]] = participation[id][usr]
       /\ partial_indiff[id][usr - startu[id]] = 0

C6_Witness ==
  \E id \in Procs, usr \in Users :
    /\ Processed(id, usr)
    /\ num_clusters >= 3
    /\ participation[id][usr] = 1
    /\ \A c \in Clusters \ {participation[id][usr]} :
         oracle[usr][participation[id][usr]] < oracle[usr][c]

\* C7: a round run again on the same error table and the same input vector
\* with another number of processes returns the vectors the first run
\* returned.
C7_WorkerCountDeterminism ==
  \A id \in Procs :
    (pc[id] = "done" /\ prev.kind = "rerun") =>
       /\ participation[id] = prev.input
       /\ prev.procs # num_procs
       /\ ret_participation[id] = prev.participation
       /\ ret_indifference[id] = prev.indifference

\* One of the two runs had more processes than users, the other not.
C7_Witness ==
  /\ AllDone
  /\ prev.kind = "rerun"
  /\ nrows >= 2
  /\ prev.procs <= nrows
  /\ num_procs > nrows
  /\ ret_participation[0] # prev.input
  /\ \E usr \in Users : ret_indifference[0][usr] = 1

\* C8: the block sizes of any two processes differ by at most 1.
C8_PartitionBalance ==
  \A a \in Procs, b \in Procs :
    (Ranged(a) /\ Ranged(b)) => step[a] - step[b] <= 1

C8_Witness ==
  /\ AllRanged
  /\ num_procs >= 3
  /\ nrows % num_procs >= 2
  /\ \E a \in Procs, b \in Procs : step[a] - step[b] = 1

\* C9: process id starts at base*id + min(id, remainder) and owns base+1
\* users if id < remainder and base users otherwise; 7 users on 3 processes
\* give sizes [3,2,2] and starts [0,3,5].
C9_PartitionFormula ==
  LET base == nrows \div num_procs
      remainder == nrows % num_procs
  IN  \A id \in Procs :
        Ranged(id) =>
          /\ startu[id] = base * id + (IF id <= remainder THEN id ELSE remainder)
          /\ step[id] = (IF id < remainder THEN base + 1 ELSE base)
          /\ endu[id] = startu[id] + step[id]
          /\ (nrows = 7 /\ num_procs = 3) =>
               /\ step[id] = (IF id = 0 THEN 3 ELSE 2)
               /\ startu[id] = (CASE id = 0 -> 0 [] id = 1 -> 3 [] OTHER -> 5)

C9_Witness == AllRanged /\ nrows = 7 /\ num_procs = 3

\* Every user's cluster in vec attains the user's minimum error.
AtMinimum(vec) ==
  \A usr \in Users : \A c \in Clusters : oracle[usr][vec[usr]] <= oracle[usr][c]

\* C10: where every user's current cluster already attains the minimum
\* error, the round returns the input vector, the flag of a user is 1
\* exactly if another cluster has the error of its current one, and the
\* next round, run on the returned vector, returns that vector again.
C10_NoChangeIdempotence ==
  \A id \in Procs :
    pc[id] = "done" =>
      /\ AtMinimum(participation[id]) =>
           /\ ret_participation[id] = participation[id]
           /\ \A usr \in Users :
                ret_indifference[id][usr] =
                  (IF Tied(usr, participation[id][usr]) THEN 1 ELSE 0)
      /\ (prev.kind = "next" /\ AtMinimum(prev.input)) =>
           /\ participation[id] = prev.participation
           /\ ret_participation[id] = prev.participation

C10_Witness ==
  /\ AllDone
  /\ prev.kind = "next"
  /\ AtMinimum(prev.input)
  /\ nrows >= 2
  /\ num_procs >= 2
  /\ \E usr \in Users : ret_indifference[0][usr] = 1
  /\ \E usr \in Users : ret_indifference[0][usr] = 0

\* C11: no step of a round changes the input vector of any process; a loop
\* iteration of a process changes only that process's partial buffers, and
\* what a process returns are the total vectors it allocated in the round.
C11_InputNotMutated ==
  [][/\ participation' = participation
     /\ \A id \in Procs :
          (pc[id] = "loop" /\ u'[id] # u[id]) =>
             /\ totals' = totals
             /\ rets' = rets
             /\ \A o \in Procs \ {id} :
                  /\ partial_participation'[o] = partial_participation[o]
                  /\ partial_indiff'[o] = partial_indiff[o]
     /\ \A id \in Procs :
          (pc[id] = "free" /\ pc'[id] = "done") =>
             /\ ret_participation'[id] = total_participation[id]
             /\ ret_indifference'[id] = total_indiff[id]
             /\ totals' = totals]_vars

\* Every process has returned a vector that differs from its input.
C11_Witness ==
  /\ AllDone
  /\ num_procs >= 2
  /\ \A id \in Procs : \E usr \in Users :
       ret_participation[id][usr] # participation[id][usr]

\* C12: where the oracle yields a value that is not a number for some user
\* and cluster, no process returns from the round and none holds a returned
\* assignment or indifference vector.
C12_OracleFailureFatal ==
  (\E usr \in Users, c \in Clusters : oracle[usr][c] = NaN) =>
     \A id \in Procs :
       /\ pc[id] # "done"
       /\ ret_participation[id] = NULL
       /\ ret_indifference[id] = NULL

\* Process id has left MPI_Barrier; process o has ended its loop.
PastBarrier(id) == pc[id] \notin {"start", "loop", "barrier"}
LoopEnded(o) == pc[o] \notin {"start", "loop"}

\* C13: while some process has not ended its loop over its users, no
\* process has left the barrier and no message of the size exchange, of a
\* gather or of a broadcast has been sent.
C13_BarrierOrdering ==
  (\E id \in Procs : \/ PastBarrier(id)
                     \/ Len(chan_up[id]) > 0
                     \/ Len(chan_down[id]) > 0) =>
     \A o \in Procs : LoopEnded(o)

\* A process with an empty range has sent its size while a process that
\* owns users is still inside the barrier.
C13_Witness ==
  \E id \in Procs, o \in Procs :
    /\ id # 0
    /\ step[id] = 0
    /\ pc[id] = "gatherv_participation"
    /\ Len(chan_up[id]) = 1
    /\ step[o] > 0
    /\ pc[o] = "barrier"

\* Vector v has an entry for every user and none of them is unwritten.
FullyWritten(v) == DOMAIN v = Users /\ \A usr \in Users : v[usr] # UNINIT

\* C14: a process other than the root is past a broadcast only once the
\* root has sent it, and has returned only with both broadcasts received;
\* the root broadcasts only after the slices of all processes are placed;
\* every broadcast vector and every returned vector is fully written.
C14_AtomicPublication ==
  /\ \A id \in Procs \ {0} :
       /\ pc[id] \in {"bcast_indiff", "free", "done"} =>
            pc[0] \in {"bcast_indiff", "free", "done"}
       /\ pc[id] \in {"free", "done"} =>
            (pc[0] \in {"free", "done"} /\ chan_down[id] = <<>>)
  /\ (\/ pc[0] \in {"bcast_indiff", "free", "done"}
      \/ \E id \in Procs : Len(chan_down[id]) > 0) =>
       \A o \in Procs :
         /\ pc[o] \in {"bcast_participation", "bcast_indiff", "free", "done"}
         /\ chan_up[o] = <<>>
  /\ \A id \in Procs : \A k \in 1 .. Len(chan_down[id]) :
       FullyWritten(chan_down[id][k])
  /\ \A id \in Procs :
       pc[id] = "done" =>
          /\ FullyWritten(ret_participation[id])
          /\ FullyWritten(ret_indifference[id])

\* The root and one process have returned while a third still waits for
\* the two broadcasts.
C14_Witness ==
  /\ num_procs = 3
  /\ nrows = 3
  /\ pc[0] = "done"
  /\ pc[2] = "done"
  /\ pc[1] = "bcast_participation"
  /\ Len(chan_down[1]) = 2

\* The sum of sz[0], ..., sz[w-1]; the root holds sizes and displays.
SumBelow(sz, w) ==
  Cardinality({x \in (0 .. (w - 1)) \X (1 .. nrows) : x[2] <= sz[x[1]]})
RootHoldsOffsets ==
  pc[0] \in {"gatherv_participation", "gatherv_indiff", "bcast_participation",
             "bcast_indiff", "free"}

\* C15: at the root the size received from a process is that process's
\* step, its displacement is the sum of the sizes of the processes of lower
\* rank and equals its startu, the sizes sum to nrows, and every index of
\* the total vectors lies in the block of exactly one process, its owner.
C15_GatherOffsets ==
  RootHoldsOffsets =>
    /\ \A w \in Procs :
         /\ sizes[0][w] = step[w]
         /\ displays[0][w] = SumBelow(sizes[0], w)
         /\ displays[0][w] = startu[w]
    /\ SumBelow(sizes[0], num_procs) = nrows
    /\ \A usr \in Users :
         LET into == {w \in Procs : displays[0][w] <= usr
                                     /\ usr < displays[0][w] + sizes[0][w]}
         IN  /\ Cardinality(into) = 1
             /\ \A w \in into : usr \in Owned(w)

\* Three processes with unequal sizes, one with an empty range.
C15_Witness ==
  /\ pc[0] = "gatherv_indiff"
  /\ num_procs = 3
  /\ nrows = 2
  /\ sizes[0][2] = 0
  /\ displays[0][2] = 2

\* The oracle calls made for user usr and cluster c by the processes 0..id.
RECURSIVE CallsUpTo(_, _, _)
CallsUpTo(usr, c, id) ==
  IF id < 0 THEN 0 ELSE calls[<<id, usr, c>>] + CallsUpTo(usr, c, id - 1)
TotalCalls(usr, c) == CallsUpTo(usr, c, num_procs - 1)

\* C16: the oracle is never called twice for a user and cluster, only the
\* process that owns a user calls it for that user, and once every process
\* has ended its loop it has been called exactly once for every user and
\* cluster.
C16_OracleCallCount ==
  /\ \A id \in Procs, usr \in Users, c \in Clusters :
       calls[<<id, usr, c>>] > 0 => (Ranged(id) /\ usr \in Owned(id))
  /\ \A usr \in Users, c \in Clusters : TotalCalls(usr, c) <= 1
  /\ (\A o \in Procs : LoopEnded(o)) =>
       \A usr \in Users, c \in Clusters : TotalCalls(usr, c) = 1

\* A whole round of three users and two clusters on three processes.
C16_Witness ==
  /\ AllDone
  /\ num_procs = 3
  /\ nrows = 3
  /\ num_clusters = 2
  /\ \A usr \in Users, c \in Clusters : TotalCalls(usr, c) = 1

\* C17: once a process has stalled in its local pass, no process leaves the
\* barrier, none allocates or holds a total vector and none returns.
C17_StalledPeerStallsRound ==
  (\E s \in Procs : pc[s] = "stalled") =>
     \A id \in Procs :
       /\ pc[id] \in {"start", "loop", "barrier", "stalled"}
       /\ total_participation[id] = NULL
       /\ total_indiff[id] = NULL
       /\ ret_participation[id] = NULL
       /\ ret_indifference[id] = NULL

\* A process stalled after it had processed a user, and every other process
\* waits in the barrier, where no step is left to it.
C17_Witness ==
  /\ num_procs = 3
  /\ \E s \in Procs :
       /\ pc[s] = "stalled"
       /\ u[s] > startu[s]
       /\ \A id \in Procs \ {s} : pc[id] = "barrier"
  /\ ~(ENABLED NextStall)

\* C18: no step lowers the column count of a process's model, a count that
\* is already ctrl_size * num_clusters or more is left as it is, the step
\* that prepares the model leaves the count at least that large with the
\* column index built over it, and every oracle call of a process is made
\* with its model in that prepared state.
C18_ModelPreparedFirst ==
  [][\A id \in Procs :
       /\ model_ncols'[id] >= model_ncols[id]
       /\ (model_ncols[id] >= ctrl_size * num_clusters) =>
            model_ncols'[id] = model_ncols[id]
       /\ (pc[id] = "start" /\ pc'[id] = "loop") =>
            /\ model_ncols'[id] >= ctrl_size * num_clusters
            /\ model_colidx'[id] = model_ncols'[id]
       /\ (\E usr \in Users, c \in Clusters :
             calls'[<<id, usr, c>>] > calls[<<id, usr, c>>]) =>
            /\ model_ncols[id] >= ctrl_size * num_clusters
            /\ model_colidx[id] = model_ncols[id]]_vars

\* In the second round a process calls the oracle on a model whose count
\* the first round had to widen; another model was wide enough on entry.
C18_Witness ==
  /\ round = 2
  /\ ctrl_size = 2
  /\ num_clusters = 2
  /\ \E id \in Procs :
       /\ pc[id] = "loop"
       /\ u[id] > startu[id]
       /\ model_ncols[id] = ctrl_size * num_clusters
       /\ model_colidx[id] = model_ncols[id]

\* C19: the condition of the clamp is false for every process, the end
\* startu + step of the last process is nrows before the clamp, and the
\* range and block size a process ends up with are the unclamped ones.
C19_ClampNeverFires ==
  \A id \in Procs :
    Ranged(id) =>
      /\ ~ClampCondition(id, num_procs, nrows)
      /\ (id = num_procs - 1) =>
           StartuOf(id, num_procs, nrows) + StepOf(id, num_procs, nrows) = nrows
      /\ step[id] = StepOf(id, num_procs, nrows)
      /\ startu[id] = StartuOf(id, num_procs, nrows)
      /\ endu[id] = startu[id] + StepOf(id, num_procs, nrows)

\* A remainder, and processes with and without an extra user.
C19_Witness ==
  /\ AllRanged
  /\ nrows = 6
  /\ num_procs = 4
  /\ endu[num_procs - 1] = nrows

\* Every process has entered the barrier exactly once and every message
\* sent in a gather or a broadcast has been received.
CollectivesMatched ==
  /\ Len(arrived) = num_procs
  /\ \A id \in Procs : \E i \in 1 .. Len(arrived) : arrived[i] = id
  /\ \A id \in Procs : chan_up[id] = <<>> /\ chan_down[id] = <<>>

\* C20: under fair scheduling, when no process stalls and the oracle
\* always returns, every process eventually returns from the round, each
\* having taken part in every collective once, whatever its range size.
C20_DeadlockFreedom == <>(AllDone /\ CollectivesMatched)

\* A finished round with more processes than users: some range is empty.
C20_Witness ==
  /\ AllDone
  /\ CollectivesMatched
  /\ nrows >= 1
  /\ num_procs > nrows
  /\ \E id \in Procs : step[id] = 0

====
